---- MODULE Spec2Model ----
\* A model of check.js: the proxy rotator, the per-username check-and-retry
\* loop (checkUsername), and run(), which fans the usernames out under
\* p-limit and sorts every result into one of four lists.
\*
\* JavaScript runs each continuation to completion, so every action below is
\* one continuation: the code from one await to the next.  Strings are TLA+
\* strings; slice, includes and the JSON round trip of safeReadBody are
\* computed on their characters.
EXTENDS Naturals, Sequences, FiniteSets, TLC

\* ------------------------------------------------------------------ bounds
MaxNames == 2        \* longest usernames.txt of Spec
MaxProxies == 2      \* longest proxies.txt
MaxWide == 6         \* length of usernames.txt in SpecWide (more than CONCURRENCY)
MaxAdvance == 12     \* calls of next() in SpecRotator
MaxCalls == 8        \* most remote calls the usernames of Spec can need

\* ------------------------------------------------------- program constants
CONCURRENCY == 5
MIN_LEN == 3
DETAIL_LEN == 200

\* --------------------------------------------------------- string helpers
Min(a, b) == IF a < b THEN a ELSE b

Max(a, b) == IF a > b THEN a ELSE b

\* s.slice(0, n)
Slice(s, n) == SubSeq(s, 1, Min(n, Len(s)))

\* s.includes(sub)
Includes(s, sub) ==
    \E k \in 1..(Len(s) + 1) :
        /\ k + Len(sub) - 1 <= Len(s)
        /\ SubSeq(s, k, k + Len(sub) - 1) = sub

CharAt(s, k) == SubSeq(s, k, k)

RECURSIVE Repeat(_, _)
Repeat(s, n) == IF n = 0 THEN "" ELSE s \o Repeat(s, n - 1)

RECURSIVE TrimLeft(_)
TrimLeft(s) ==
    IF Len(s) > 0 /\ CharAt(s, 1) = " " THEN TrimLeft(SubSeq(s, 2, Len(s))) ELSE s

RECURSIVE TrimRight(_)
TrimRight(s) ==
    IF Len(s) > 0 /\ CharAt(s, Len(s)) = " "
    THEN TrimRight(SubSeq(s, 1, Len(s) - 1))
    ELSE s

Trim(s) == TrimLeft(TrimRight(s))

\* ------------------------------------------------ JSON, as far as bodies go
\* The response bodies of the model are drawn from this fragment of JSON:
\* null, true, false, a natural number, a string literal without escapes,
\* {} and an object with one member.  Whitespace is the space character.
Quote == "\""

Digits == {"0", "1", "2", "3", "4", "5", "6", "7", "8", "9"}

IsStringLit(t) ==
    /\ Len(t) >= 2
    /\ CharAt(t, 1) = Quote
    /\ CharAt(t, Len(t)) = Quote
    /\ \A k \in 2..(Len(t) - 1) : CharAt(t, k) \notin {Quote, "\\"}

IsNumber(t) ==
    /\ Len(t) >= 1
    /\ \A k \in 1..Len(t) : CharAt(t, k) \in Digits
    /\ (Len(t) > 1 => CharAt(t, 1) # "0")

NotJson == [ok |-> FALSE, truthy |-> FALSE, text |-> ""]

\* JSON.parse(s) followed by JSON.stringify: ok is whether the parse succeeds,
\* truthy whether the parsed value is truthy, text its serialisation.
RECURSIVE JsonRoundTrip(_)
JsonRoundTrip(s) ==
    LET t == Trim(s) IN
    IF t \in {"null", "false"} THEN [ok |-> TRUE, truthy |-> FALSE, text |-> t]
    ELSE IF t = "true" THEN [ok |-> TRUE, truthy |-> TRUE, text |-> t]
    ELSE IF IsNumber(t) THEN [ok |-> TRUE, truthy |-> t # "0", text |-> t]
    ELSE IF IsStringLit(t) THEN [ok |-> TRUE, truthy |-> Len(t) > 2, text |-> t]
    ELSE IF Len(t) >= 2 /\ CharAt(t, 1) = "{" /\ CharAt(t, Len(t)) = "}" THEN
        LET inner == Trim(SubSeq(t, 2, Len(t) - 1)) IN
        IF inner = "" THEN [ok |-> TRUE, truthy |-> TRUE, text |-> "{}"]
        ELSE IF Len(inner) < 2 \/ CharAt(inner, 1) # Quote
                \/ ~ \E k \in 2..Len(inner) : CharAt(inner, k) = Quote
        THEN NotJson
        ELSE
            LET close == CHOOSE k \in 2..Len(inner) :
                            /\ CharAt(inner, k) = Quote
                            /\ \A m \in 2..(k - 1) : CharAt(inner, m) # Quote
                key == SubSeq(inner, 1, close)
                rest == TrimLeft(SubSeq(inner, close + 1, Len(inner)))
            IN
            IF ~ IsStringLit(key) \/ Len(rest) < 1 \/ CharAt(rest, 1) # ":"
            THEN NotJson
            ELSE
                LET val == JsonRoundTrip(SubSeq(rest, 2, Len(rest))) IN
                IF val.ok
                THEN [ok |-> TRUE, truthy |-> TRUE,
                      text |-> "{" \o key \o ":" \o val.text \o "}"]
                ELSE NotJson
    ELSE NotJson

\* ------------------------------------------------------------ transport
\* A thrown error: String(err) is "name: message", or the name alone when
\* the message is empty.
ErrToString(err) ==
    IF err.message = "" THEN err.name ELSE err.name \o ": " \o err.message

ProxyErrorMarkers ==
    {"ECONNRESET", "ETIMEDOUT", "ENOTFOUND", "EAI_AGAIN", "socket", "407",
     "fetch failed", "aborted"}

isProxyError(err) ==
    LET msg == IF err.message # "" THEN err.message ELSE ErrToString(err) IN
    \E m \in ProxyErrorMarkers : Includes(msg, m)

\* What fetchCheck can throw: the abort of the request timeout, undici's
\* network failure, a reset socket, and an error no marker matches.
TimeoutAbort == [name |-> "AbortError", message |-> "This operation was aborted"]

Errors ==
    {TimeoutAbort,
     [name |-> "TypeError", message |-> "fetch failed"],
     [name |-> "Error", message |-> "read ECONNRESET"],
     [name |-> "InvalidArgumentError", message |-> "Invalid URL"]}

\* res.ok
IsOk(status) == status >= 200 /\ status <= 299

Is5xx(status) == status >= 500 /\ status <= 599

\* The statuses the endpoint answers with: the ones check.js tells apart
\* and, in AllStatuses, the ends of its ranges and further unexpected ones.
Statuses == {200, 409, 429, 400, 500, 404}

AllStatuses == Statuses \cup {204, 299, 300, 403, 503, 599}

\* safeReadBody: JSON first; the text() fallback of a body that json() has
\* already read rejects and yields "".
safeReadBody(res) ==
    IF Includes(res.ct, "application/json")
    THEN LET j == JsonRoundTrip(res.body) IN
         IF j.ok /\ j.truthy THEN j.text ELSE ""
    ELSE res.body

\* --------------------------------------------------------------- rotator
Null == "null"

\* Fault variant of current(): proxies[i] without the modulo.
rotator_current_unwrapped(c, ps) == IF c < Len(ps) THEN ps[c + 1] ELSE Null

rotator_current(c, ps) == IF Len(ps) > 0 THEN ps[(c % Len(ps)) + 1] ELSE Null

\* Fault variant of next(): i + 1 computed and dropped.
rotator_advance_lost(c) == c

\* the cursor after next()
rotator_advance(c) == c + 1

\* the value next() returns
rotator_next(c, ps) ==
    IF Len(ps) > 0 THEN ps[(rotator_advance(c) % Len(ps)) + 1] ELSE Null

\* Fault variant of maxTries: the floor of 3 alone.
maxTriesFixed(ps) == 3

maxTriesOf(ps) == Max(3, IF Len(ps) > 0 THEN Len(ps) * 2 ELSE 3)

\* --------------------------------------------------------------- results
NoResult == [status |-> "none"]

NoResponse == [status |-> 0, ct |-> "", body |-> ""]

RetryLimit(u) == [username |-> u, status |-> "error", detail |-> "retry limit reached"]

TooShort(u) ==
    [username |-> u, status |-> "invalid",
     detail |-> "min_length_" \o ToString(MIN_LEN)]

\* ----------------------------------------------------------------- state
VARIABLES
    usernames,      \* parseList(usernames.txt)
    proxies,        \* the normalised lines of proxies.txt
    remote,         \* the network of this run: the statuses and the
                    \* (content-type, body) pairs the endpoint answers with, and
                    \* the entries of usernames whose calls may end in something
                    \* other than 2xx
    runPc,          \* where run() is: "start", "running", "complete", "empty"
    sinks,          \* the four result files: "untouched", "open", "closed"
    i,              \* the rotator's cursor
    queue,          \* p-limit's queue: entries of usernames not yet started
    activeCount,    \* p-limit's count of running callbacks
    task,           \* per entry of usernames: its checkUsername and callback
    state,          \* { total, available, taken }
    availableList, takenList, invalidList, errorList,
    ret             \* SpecRotator: what the last rotator call returned

vars ==
    <<usernames, proxies, remote, runPc, sinks, i, queue, activeCount, task,
      state, availableList, takenList, invalidList, errorList, ret>>

Entries == 1..Len(usernames)

maxTries == maxTriesOf(proxies)

\* A task's fields.  pc is the await the task is suspended at:
\*   "queued"    in p-limit's queue
\*   "fetch"     await fetchCheck(username, proxy)
\*   "body"      await safeReadBody(res)
\*   "sleep"     await sleep(250) or sleep(200) before continue
\*   "finally"   await sleep(BASE_DELAY_MS) of the finally block; r is the
\*               pending return value, NoResult for a pending continue
\*   "returned"  checkUsername has returned r, the callback has not resumed
\*   "done"      the callback has filed r; p-limit has not yet taken the slot
\*   "released"  p-limit has freed the slot
\* calls, fails, nexts and last are history: the remote calls made, the
\* attempts that ended in a retryable failure, the calls of rotator.next(),
\* the outcome of the latest attempt, and the proxies the attempts went
\* through.
Queued ==
    [pc |-> "queued", attempt |-> 0, proxy |-> Null, res |-> NoResponse,
     r |-> NoResult, calls |-> 0, fails |-> 0, nexts |-> 0, last |-> "none",
     used |-> {}]

InFlightPcs == {"fetch", "body", "sleep", "finally", "returned"}

\* Fault variant of the attempt: the proxy read once, before the loop.
BeginAttemptSnapshot(t, a, c) ==
    [t EXCEPT !.pc = "fetch", !.attempt = a,
              !.proxy = IF a = 0 THEN rotator_current(c, proxies) ELSE @,
              !.res = NoResponse, !.r = NoResult, !.calls = @ + 1,
              !.used = @ \cup {IF a = 0 THEN rotator_current(c, proxies) ELSE t.proxy}]

\* The start of attempt number a: line 91 reads the rotator, line 94 calls out.
BeginAttempt(t, a, c) ==
    [t EXCEPT !.pc = "fetch", !.attempt = a,
              !.proxy = rotator_current(c, proxies),
              !.res = NoResponse, !.r = NoResult, !.calls = @ + 1,
              !.used = @ \cup {rotator_current(c, proxies)}]

\* Fault variant of the local filter: length <= MIN_LEN - 2 rejected only.
StartCheckOffByOne(u, c) ==
    IF Len(u) < MIN_LEN - 1
    THEN [Queued EXCEPT !.pc = "returned", !.r = TooShort(u), !.last = "Invalid"]
    ELSE BeginAttempt(Queued, 0, c)

\* checkUsername up to its first await (lines 84-94).
StartCheck(u, c) ==
    IF Len(u) < MIN_LEN
    THEN [Queued EXCEPT !.pc = "returned", !.r = TooShort(u), !.last = "Invalid"]
    ELSE BeginAttempt(Queued, 0, c)

\* ------------------------------------------------------- checkUsername
\* fetchCheck resolved with a response (lines 94-112, up to the next await).
OnResponse(k, res) ==
    /\ runPc = "running"
    /\ task[k].pc = "fetch"
    /\ IF IsOk(res.status) THEN
           /\ task' = [task EXCEPT ![k].pc = "finally", ![k].last = "Available",
                          ![k].res = res,
                          ![k].r = [username |-> usernames[k], status |-> "available"]]
           /\ i' = i
       ELSE IF res.status = 409 THEN
           /\ task' = [task EXCEPT ![k].pc = "finally", ![k].last = "Taken",
                          ![k].res = res,
                          ![k].r = [username |-> usernames[k], status |-> "taken"]]
           /\ i' = i
       ELSE IF res.status = 429 THEN
           /\ task' = [task EXCEPT ![k].pc = "sleep", ![k].last = "RetryableFailure",
                          ![k].res = res, ![k].fails = @ + 1, ![k].nexts = @ + 1]
           /\ i' = rotator_advance(i)
       ELSE
           /\ task' = [task EXCEPT ![k].pc = "body", ![k].res = res]
           /\ i' = i
    /\ IsOk(res.status) \/ k \in remote.flaky
    /\ UNCHANGED <<usernames, proxies, remote, runPc, sinks, queue, activeCount,
                   state, availableList, takenList, invalidList, errorList, ret>>

\* safeReadBody resolved (lines 107-108 for a 400, lines 112-123 otherwise).
OnBody(k) ==
    /\ runPc = "running"
    /\ task[k].pc = "body"
    /\ LET res == task[k].res
           body == safeReadBody(res)
       IN
       IF res.status = 400 THEN
           /\ task' = [task EXCEPT ![k].pc = "finally", ![k].last = "Invalid",
                          ![k].r = [username |-> usernames[k], status |-> "invalid",
                                    code |-> 400, detail |-> Slice(body, DETAIL_LEN)]]
           /\ i' = i
       ELSE IF Is5xx(res.status) THEN
           /\ task' = [task EXCEPT ![k].pc = "sleep", ![k].last = "RetryableFailure",
                          ![k].fails = @ + 1, ![k].nexts = @ + 1]
           /\ i' = rotator_advance(i)
       ELSE
           /\ task' = [task EXCEPT ![k].pc = "finally", ![k].last = "TerminalFailure",
                          ![k].nexts = @ + 1,
                          ![k].r = [username |-> usernames[k], status |-> "error",
                                    code |-> res.status,
                                    detail |-> Slice(body, DETAIL_LEN)]]
           /\ i' = rotator_advance(i)
    /\ UNCHANGED <<usernames, proxies, remote, runPc, sinks, queue, activeCount,
                   state, availableList, takenList, invalidList, errorList, ret>>

\* Fault variant of the catch block: rotator.next() before the error is
\* classified.
OnThrowAlwaysRotates(k, err) ==
    /\ runPc = "running"
    /\ task[k].pc = "fetch"
    /\ i' = rotator_advance(i)
    /\ IF isProxyError(err) THEN
           task' = [task EXCEPT ![k].pc = "sleep", ![k].last = "RetryableFailure",
                       ![k].fails = @ + 1, ![k].nexts = @ + 1]
       ELSE
           task' = [task EXCEPT ![k].pc = "finally", ![k].last = "TerminalFailure",
                       ![k].nexts = @ + 1,
                       ![k].r = [username |-> usernames[k], status |-> "error",
                                 detail |-> Slice(ErrToString(err), DETAIL_LEN)]]
    /\ k \in remote.flaky
    /\ UNCHANGED <<usernames, proxies, remote, runPc, sinks, queue, activeCount,
                   state, availableList, takenList, invalidList, errorList, ret>>

\* Fault variant of the catch block: an unclassified error rethrown, so that
\* checkUsername rejects instead of returning.
OnThrowEscapes(k, err) ==
    /\ runPc = "running"
    /\ task[k].pc = "fetch"
    /\ IF isProxyError(err) THEN
           /\ task' = [task EXCEPT ![k].pc = "sleep", ![k].last = "RetryableFailure",
                          ![k].fails = @ + 1, ![k].nexts = @ + 1]
           /\ i' = rotator_advance(i)
       ELSE
           /\ task' = [task EXCEPT ![k].pc = "thrown", ![k].last = "TerminalFailure"]
           /\ i' = i
    /\ k \in remote.flaky
    /\ UNCHANGED <<usernames, proxies, remote, runPc, sinks, queue, activeCount,
                   state, availableList, takenList, invalidList, errorList, ret>>

\* Fault variant of the catch block: a classified transport error retried
\* without rotator.next().
OnThrowNoRotate(k, err) ==
    /\ runPc = "running"
    /\ task[k].pc = "fetch"
    /\ IF isProxyError(err) THEN
           task' = [task EXCEPT ![k].pc = "sleep", ![k].last = "RetryableFailure",
                       ![k].fails = @ + 1]
       ELSE
           task' = [task EXCEPT ![k].pc = "finally", ![k].last = "TerminalFailure",
                       ![k].r = [username |-> usernames[k], status |-> "error",
                                 detail |-> Slice(ErrToString(err), DETAIL_LEN)]]
    /\ k \in remote.flaky
    /\ UNCHANGED <<usernames, proxies, remote, runPc, sinks, i, queue, activeCount,
                   state, availableList, takenList, invalidList, errorList, ret>>

\* fetchCheck rejected (lines 125-131).
OnThrow(k, err) ==
    /\ runPc = "running"
    /\ task[k].pc = "fetch"
    /\ IF isProxyError(err) THEN
           /\ task' = [task EXCEPT ![k].pc = "sleep", ![k].last = "RetryableFailure",
                          ![k].fails = @ + 1, ![k].nexts = @ + 1]
           /\ i' = rotator_advance(i)
       ELSE
           /\ task' = [task EXCEPT ![k].pc = "finally", ![k].last = "TerminalFailure",
                          ![k].r = [username |-> usernames[k], status |-> "error",
                                    detail |-> Slice(ErrToString(err), DETAIL_LEN)]]
           /\ i' = i
    /\ k \in remote.flaky
    /\ UNCHANGED <<usernames, proxies, remote, runPc, sinks, queue, activeCount,
                   state, availableList, takenList, invalidList, errorList, ret>>

\* sleep(250) or sleep(200) is over; continue enters the finally block.
OnSleep(k) ==
    /\ runPc = "running"
    /\ task[k].pc = "sleep"
    /\ task' = [task EXCEPT ![k].pc = "finally", ![k].r = NoResult]
    /\ UNCHANGED <<usernames, proxies, remote, runPc, sinks, i, queue, activeCount,
                   state, availableList, takenList, invalidList, errorList, ret>>

\* Fault variant of the finally block: a pending return is dropped while
\* attempts remain.
AfterFinallyContinue(t, u, c) ==
    IF t.attempt + 1 < maxTriesOf(proxies) THEN BeginAttempt(t, t.attempt + 1, c)
    ELSE IF t.r # NoResult THEN [t EXCEPT !.pc = "returned"]
    ELSE [t EXCEPT !.pc = "returned", !.r = RetryLimit(u)]

\* Fault variant of the loop: while (true), the attempts never run out.
AfterFinallyForever(t, u, c) ==
    IF t.r # NoResult THEN [t EXCEPT !.pc = "returned"]
    ELSE BeginAttempt(t, t.attempt + 1, c)

\* The task of entry k after sleep(BASE_DELAY_MS): the pending return
\* completes, or the loop goes on (line 90) or runs out (line 137).
AfterFinally(t, u, c) ==
    IF t.r # NoResult THEN [t EXCEPT !.pc = "returned"]
    ELSE IF t.attempt + 1 < maxTries THEN BeginAttempt(t, t.attempt + 1, c)
    ELSE [t EXCEPT !.pc = "returned", !.r = RetryLimit(u)]

OnFinally(k) ==
    /\ runPc = "running"
    /\ task[k].pc = "finally"
    /\ task' = [task EXCEPT ![k] = AfterFinally(task[k], usernames[k], i)]
    /\ UNCHANGED <<usernames, proxies, remote, runPc, sinks, i, queue, activeCount,
                   state, availableList, takenList, invalidList, errorList, ret>>

\* ------------------------------------------------------------------ run
\* Fault variant of the callback: the taken branch without its return falls
\* through to the error list.
AggregateFallThrough(r, name, agg) ==
    IF r.status = "available" THEN
        [agg EXCEPT !.state.available = @ + 1, !.available = Append(@, name)]
    ELSE IF r.status = "taken" THEN
        [agg EXCEPT !.state.taken = @ + 1, !.taken = Append(@, name),
                    !.error = Append(@, r)]
    ELSE IF r.status = "invalid" THEN
        [agg EXCEPT !.invalid = Append(@, r)]
    ELSE
        [agg EXCEPT !.error = Append(@, r)]

\* Fault variant of the callback: an invalid result counted as taken.
AggregateMiscount(r, name, agg) ==
    IF r.status = "available" THEN
        [agg EXCEPT !.state.available = @ + 1, !.available = Append(@, name)]
    ELSE IF r.status = "taken" THEN
        [agg EXCEPT !.state.taken = @ + 1, !.taken = Append(@, name)]
    ELSE IF r.status = "invalid" THEN
        [agg EXCEPT !.state.taken = @ + 1, !.invalid = Append(@, r)]
    ELSE
        [agg EXCEPT !.error = Append(@, r)]

\* The callback of limit() after await checkUsername (lines 200-225): agg
\* holds state and the four lists.
Aggregate(r, name, agg) ==
    IF r.status = "available" THEN
        [agg EXCEPT !.state.available = @ + 1, !.available = Append(@, name)]
    ELSE IF r.status = "taken" THEN
        [agg EXCEPT !.state.taken = @ + 1, !.taken = Append(@, name)]
    ELSE IF r.status = "invalid" THEN
        [agg EXCEPT !.invalid = Append(@, r)]
    ELSE
        [agg EXCEPT !.error = Append(@, r)]

Deliver(k) ==
    /\ runPc = "running"
    /\ task[k].pc = "returned"
    /\ LET agg == Aggregate(task[k].r, usernames[k],
                            [state |-> state, available |-> availableList,
                             taken |-> takenList, invalid |-> invalidList,
                             error |-> errorList])
       IN
       /\ state' = agg.state
       /\ availableList' = agg.available
       /\ takenList' = agg.taken
       /\ invalidList' = agg.invalid
       /\ errorList' = agg.error
    /\ task' = [task EXCEPT ![k].pc = "done"]
    /\ UNCHANGED <<usernames, proxies, remote, runPc, sinks, i, queue, activeCount, ret>>

\* run() up to await Promise.all (lines 156-198): the empty list returns at
\* once; otherwise the sinks are reset and opened and every entry is handed
\* to limit(), which queues it.
\* Fault variant of run(): the sinks reset and opened before the list is
\* looked at.
RunStartSinksFirst ==
    /\ runPc = "start"
    /\ sinks' = "open"
    /\ IF Len(usernames) = 0 THEN
           /\ runPc' = "empty"
           /\ UNCHANGED <<state, queue>>
       ELSE
           /\ runPc' = "running"
           /\ state' = [total |-> Len(usernames), available |-> 0, taken |-> 0]
           /\ queue' = [k \in Entries |-> k]
    /\ UNCHANGED <<usernames, proxies, remote, i, activeCount, task,
                   availableList, takenList, invalidList, errorList, ret>>

RunStart ==
    /\ runPc = "start"
    /\ IF Len(usernames) = 0 THEN
           /\ runPc' = "empty"
           /\ UNCHANGED <<sinks, state, queue>>
       ELSE
           /\ runPc' = "running"
           /\ sinks' = "open"
           /\ state' = [total |-> Len(usernames), available |-> 0, taken |-> 0]
           /\ queue' = [k \in Entries |-> k]
    /\ UNCHANGED <<usernames, proxies, remote, i, activeCount, task,
                   availableList, takenList, invalidList, errorList, ret>>

\* Fault variant of the gate: the head of the queue runs whatever the count.
AdmitUnbounded ==
    /\ runPc = "running"
    /\ queue # <<>>
    /\ activeCount' = activeCount + 1
    /\ queue' = Tail(queue)
    /\ task' = [task EXCEPT ![Head(queue)] = StartCheck(usernames[Head(queue)], i)]
    /\ UNCHANGED <<usernames, proxies, remote, runPc, sinks, i, state,
                   availableList, takenList, invalidList, errorList, ret>>

\* p-limit after an enqueue: with a free slot, the head of the queue runs.
Admit ==
    /\ runPc = "running"
    /\ activeCount < CONCURRENCY
    /\ queue # <<>>
    /\ activeCount' = activeCount + 1
    /\ queue' = Tail(queue)
    /\ task' = [task EXCEPT ![Head(queue)] = StartCheck(usernames[Head(queue)], i)]
    /\ UNCHANGED <<usernames, proxies, remote, runPc, sinks, i, state,
                   availableList, takenList, invalidList, errorList, ret>>

\* Fault variant of the hand-over: a settled callback leaves its slot taken.
ReleaseLeak(k) ==
    /\ runPc \in {"running", "complete"}
    /\ task[k].pc = "done"
    /\ task' = [task EXCEPT ![k].pc = "released"]
    /\ UNCHANGED <<usernames, proxies, remote, runPc, sinks, i, queue, activeCount,
                   state, availableList, takenList, invalidList, errorList, ret>>

\* p-limit after a callback has settled: the slot is freed and goes to the
\* head of the queue at once.
Release(k) ==
    /\ runPc \in {"running", "complete"}
    /\ task[k].pc = "done"
    /\ IF queue # <<>> THEN
           /\ task' = [task EXCEPT ![k].pc = "released",
                          ![Head(queue)] = StartCheck(usernames[Head(queue)], i)]
           /\ queue' = Tail(queue)
           /\ activeCount' = activeCount
       ELSE
           /\ task' = [task EXCEPT ![k].pc = "released"]
           /\ queue' = queue
           /\ activeCount' = activeCount - 1
    /\ UNCHANGED <<usernames, proxies, remote, runPc, sinks, i, state,
                   availableList, takenList, invalidList, errorList, ret>>

\* Fault variant of the wait: completion as soon as one callback has finished.
CompleteEarly ==
    /\ runPc = "running"
    /\ \E k \in Entries : task[k].pc \in {"done", "released"}
    /\ runPc' = "complete"
    /\ sinks' = "closed"
    /\ UNCHANGED <<usernames, proxies, remote, i, queue, activeCount, task, state,
                   availableList, takenList, invalidList, errorList, ret>>

\* Promise.all has resolved: every callback has finished (lines 230-246).
Complete ==
    /\ runPc = "running"
    /\ \A k \in Entries : task[k].pc \in {"done", "released"}
    /\ runPc' = "complete"
    /\ sinks' = "closed"
    /\ UNCHANGED <<usernames, proxies, remote, i, queue, activeCount, task, state,
                   availableList, takenList, invalidList, errorList, ret>>

\* ---------------------------------------------------------- environment
ProxyAt(n) == "http://p" \o ToString(n) \o ":8080"

ProxyList(n) == [k \in 1..n |-> ProxyAt(k)]

NamePool == {"ab", "validname"}

NameLists(n) == UNION {[1..m -> NamePool] : m \in 0..n}

JsonType == "application/json; charset=utf-8"

PlainBody == [ct |-> JsonType, body |-> "{\"message\":\"reserved\"}"]

InitWith(names, ps, net) ==
    /\ usernames = names
    /\ proxies = ps
    /\ remote = net
    /\ runPc = "start"
    /\ sinks = "untouched"
    /\ i = 0
    /\ queue = <<>>
    /\ activeCount = 0
    /\ task = [k \in 1..Len(names) |-> Queued]
    /\ state = [total |-> 0, available |-> 0, taken |-> 0]
    /\ availableList = <<>>
    /\ takenList = <<>>
    /\ invalidList = <<>>
    /\ errorList = <<>>
    /\ ret = [op |-> "none", value |-> Null, k |-> 0]

\* Spec: short lists, every call free to fail.  MaxCalls keeps the remote
\* calls a run can need (usernames times maxTries) within reach of a check.
Init ==
    \E names \in NameLists(MaxNames), n \in 0..MaxProxies :
        /\ Len(names) * maxTriesOf(ProxyList(n)) <= MaxCalls
        /\ InitWith(names, ProxyList(n), [statuses |-> Statuses, bodies |-> {PlainBody},
                     flaky |-> 1..Len(names)])

Next ==
    \/ RunStart
    \/ Admit
    \/ \E k \in Entries, s \in remote.statuses, b \in remote.bodies :
           OnResponse(k, [status |-> s, ct |-> b.ct, body |-> b.body])
    \/ \E k \in Entries, err \in Errors : OnThrow(k, err)
    \/ \E k \in Entries : OnBody(k)
    \/ \E k \in Entries : OnSleep(k)
    \/ \E k \in Entries : OnFinally(k)
    \/ \E k \in Entries : Deliver(k)
    \/ \E k \in Entries : Release(k)
    \/ Complete

Spec == Init /\ [][Next]_vars

\* SpecFair: Spec under the scheduling of the event loop.  A continuation
\* that is ready runs, a timer fires, and a remote call answers or is
\* aborted after TIMEOUT_MS (fetchCheck, lines 42-59), so the program never
\* idles while a step is enabled.
Fairness == WF_vars(Next)

TextBody == [ct |-> "text/plain", body |-> "reserved"]

InitFair ==
    \E names \in NameLists(MaxNames), n \in 0..MaxProxies :
        /\ Len(names) * maxTriesOf(ProxyList(n)) <= MaxCalls
        /\ InitWith(names, ProxyList(n),
                    [statuses |-> Statuses, bodies |-> {TextBody},
                     flaky |-> {k \in 1..Len(names) : k % 2 = 1}])

SpecFair == InitFair /\ [][Next]_vars /\ Fairness

\* SpecWide: more usernames than CONCURRENCY, short and long ones mixed, over
\* a network that fails for the first username only.
WideName(k) == IF k % 3 = 2 THEN "ab" ELSE "validname"

InitWide ==
    InitWith([k \in 1..MaxWide |-> WideName(k)], ProxyList(1),
             [statuses |-> Statuses, bodies |-> {PlainBody}, flaky |-> {1}])

SpecWide == InitWide /\ [][Next]_vars

\* SpecWideFair: more usernames than CONCURRENCY under the scheduling of the
\* event loop.  The first and the last username go to the remote, the last
\* one, which waits longest for its slot, over a network that fails; the
\* ones between are too short and return at once.
WideFairName(k) == IF k \in {1, MaxWide} THEN "validname" ELSE "ab"

InitWideFair ==
    InitWith([k \in 1..MaxWide |-> WideFairName(k)], ProxyList(1),
             [statuses |-> Statuses, bodies |-> {TextBody}, flaky |-> {MaxWide}])

SpecWideFair == InitWideFair /\ [][Next]_vars /\ Fairness

\* SpecOne: one username, every status and every kind of body.
TextType == "text/plain"

LongText == Repeat("x", DETAIL_LEN + 1)

Bodies ==
    {PlainBody,
     [ct |-> JsonType, body |-> "{ \"message\": \"reserved\" }"],
     [ct |-> JsonType, body |-> "Bad Request"],
     [ct |-> JsonType, body |-> "null"],
     [ct |-> JsonType, body |-> Quote \o LongText \o Quote],
     [ct |-> TextType, body |-> "Bad Request"],
     [ct |-> TextType, body |-> LongText],
     [ct |-> TextType, body |-> Repeat("x", DETAIL_LEN)],
     [ct |-> "", body |-> ""]}

InitOne ==
    \E name \in NamePool, n \in 0..MaxProxies :
        InitWith(<<name>>, ProxyList(n),
                 [statuses |-> AllStatuses, bodies |-> Bodies, flaky |-> {1}])

SpecOne == InitOne /\ [][Next]_vars

\* SpecRotator: createProxyRotator on its own, current() and next() called
\* in any order.
ProxyLists(n) == UNION {[1..m -> {ProxyAt(j) : j \in 1..n}] : m \in 0..n}

CallCurrent ==
    /\ ret' = [op |-> "current", value |-> rotator_current(i, proxies), k |-> ret.k]
    /\ UNCHANGED <<usernames, proxies, remote, runPc, sinks, i, queue, activeCount,
                   task, state, availableList, takenList, invalidList, errorList>>

CallNext ==
    /\ ret.k < MaxAdvance
    /\ i' = rotator_advance(i)
    /\ ret' = [op |-> "next", value |-> rotator_next(i, proxies), k |-> ret.k + 1]
    /\ UNCHANGED <<usernames, proxies, remote, runPc, sinks, queue, activeCount,
                   task, state, availableList, takenList, invalidList, errorList>>

InitRotator ==
    \E ps \in ProxyLists(MaxProxies) :
        InitWith(<<>>, ps, [statuses |-> {}, bodies |-> {}, flaky |-> {}])

NextRotator == CallCurrent \/ CallNext

SpecRotator == InitRotator /\ [][NextRotator]_vars

\* ================================================================ claims
InFlight == {k \in Entries : task[k].pc \in InFlightPcs}

Filed == {k \in Entries : task[k].pc \in {"done", "released"}}

FiledAs(status) == {k \in Filed : task[k].r.status = status}

CountIn(seq, x) == Cardinality({j \in 1..Len(seq) : seq[j] = x})

IsPrefix(a, b) == Len(a) <= Len(b) /\ SubSeq(b, 1, Len(a)) = a

BucketsTotal ==
    Len(availableList) + Len(takenList) + Len(invalidList) + Len(errorList)

\* C1: at most CONCURRENCY usernames are in flight (checkUsername started,
\* its result not yet taken by the callback) in every reachable state.
C1_ConcurrencyBound == Cardinality(InFlight) <= CONCURRENCY

C1_Witness ==
    /\ Cardinality(InFlight) = CONCURRENCY
    /\ queue # <<>>
    /\ \E k \in InFlight : task[k].attempt > 0

\* C2: every entry of usernames gets at most one result; a filed result sits
\* in exactly one of the four lists, the one of its status, once per entry;
\* and a filed result is never changed, moved or removed afterwards.
C2_Placed ==
    /\ BucketsTotal = Cardinality(Filed)
    /\ \A k \in Filed :
        LET r == task[k].r
            u == usernames[k]
        IN
        /\ r.status \in {"available", "taken", "invalid", "error"}
        /\ r.status = "available" =>
               CountIn(availableList, u) =
                   Cardinality({j \in FiledAs("available") : usernames[j] = u})
        /\ r.status = "taken" =>
               CountIn(takenList, u) =
                   Cardinality({j \in FiledAs("taken") : usernames[j] = u})
        /\ r.status = "invalid" =>
               CountIn(invalidList, r) =
                   Cardinality({j \in FiledAs("invalid") : task[j].r = r})
        /\ r.status = "error" =>
               CountIn(errorList, r) =
                   Cardinality({j \in FiledAs("error") : task[j].r = r})

C2_Kept ==
    /\ IsPrefix(availableList, availableList')
    /\ IsPrefix(takenList, takenList')
    /\ IsPrefix(invalidList, invalidList')
    /\ IsPrefix(errorList, errorList')
    /\ \A k \in Filed : task'[k].pc \in {"done", "released"} /\ task'[k].r = task[k].r

C2_ExactlyOneResult == [](C2_Placed) /\ [][C2_Kept]_vars

C2_Witness ==
    /\ Cardinality(Filed) = 2
    /\ usernames[1] = usernames[2]
    /\ Len(takenList) = 1
    /\ Len(errorList) = 1

\* C3: no username makes more than max(3, 2P) remote calls, and a finished
\* check has the result error "retry limit reached" exactly when max(3, 2P)
\* of its attempts ended in a retryable failure.
RetryBudget == IF 2 * Len(proxies) > 3 THEN 2 * Len(proxies) ELSE 3

IsRetryLimit(r) ==
    /\ r.status = "error"
    /\ DOMAIN r = {"username", "status", "detail"}
    /\ r.detail = "retry limit reached"

C3_RetryBudget ==
    \A k \in Entries :
        /\ task[k].calls <= RetryBudget
        /\ task[k].fails <= task[k].calls
        /\ task[k].pc \in {"returned", "done", "released"} =>
               (IsRetryLimit(task[k].r) <=> task[k].fails = RetryBudget)

C3_Witness ==
    \E k \in Entries :
        /\ Len(proxies) = 2
        /\ task[k].pc = "done"
        /\ IsRetryLimit(task[k].r)
        /\ task[k].calls = 4

\* C4: when run() reports completion no username is queued or in flight and
\* the four lists together hold as many results as there are usernames.
C4_CompleteAccounting ==
    runPc = "complete" =>
        /\ queue = <<>>
        /\ InFlight = {}
        /\ \A k \in Entries : task[k].pc \in {"done", "released"}
        /\ BucketsTotal = Len(usernames)

C4_Witness ==
    /\ runPc = "complete"
    /\ Len(usernames) > CONCURRENCY
    /\ errorList # <<>>
    /\ invalidList # <<>>
    /\ availableList # <<>>

\* C5: after k calls of next(), current() returns the proxy at index k mod P
\* (null without proxies), the k-th next() returned that same value, and
\* current() has not moved the cursor.
ProxyAfter(k) ==
    IF Len(proxies) = 0 THEN Null ELSE proxies[(k % Len(proxies)) + 1]

C5_RoundRobin ==
    /\ i = ret.k
    /\ ret.op \in {"current", "next"} => ret.value = ProxyAfter(ret.k)

C5_Witness ==
    /\ ret.op = "next"
    /\ Len(proxies) = 2
    /\ proxies[1] # proxies[2]
    /\ ret.k = 3
    /\ ret.value = proxies[2]

\* C6: the cursor equals the number of next() calls made so far by all the
\* checks of the run, in every interleaving.
RECURSIVE NextsUpTo(_)
NextsUpTo(n) == IF n = 0 THEN 0 ELSE task[n].nexts + NextsUpTo(n - 1)

C6_NoLostAdvance == i = NextsUpTo(Len(usernames))

C6_Witness ==
    /\ Len(usernames) = 2
    /\ task[1].nexts >= 1
    /\ task[2].nexts >= 1
    /\ task[1].pc = "fetch"
    /\ task[2].pc = "fetch"

\* C7: state.available and state.taken count the results filed so far as
\* available and as taken; invalid and error results move neither; and
\* state.total is the number of usernames throughout the run.
C7_Counters ==
    runPc \in {"running", "complete"} =>
        /\ state.available = Cardinality(FiledAs("available"))
        /\ state.taken = Cardinality(FiledAs("taken"))
        /\ state.total = Len(usernames)

C7_Witness ==
    /\ runPc = "running"
    /\ state.taken = 1
    /\ state.available = 0
    /\ FiledAs("error") # {}
    /\ Cardinality(Filed) = 2

\* C8: a username shorter than MIN_LEN gets invalid / min_length_3 and makes
\* no remote call, whatever the proxies are.
C8_TooShort ==
    \A k \in Entries :
        (Len(usernames[k]) < 3 /\ task[k].pc # "queued") =>
            /\ task[k].calls = 0
            /\ task[k].pc \in {"returned", "done", "released"}
            /\ task[k].r = [username |-> usernames[k], status |-> "invalid",
                            detail |-> "min_length_3"]

C8_Witness ==
    \E k \in Entries :
        /\ Len(usernames[k]) < 3
        /\ task[k].pc = "done"
        /\ Len(proxies) = 2
        /\ invalidList # <<>>

\* C9: the latest response decides the result on whichever attempt it comes:
\* 2xx gives available, 409 taken, and 400 invalid with code 400 and the
\* first 200 characters of the response body as detail.
Decided(k) == task[k].pc \in {"finally", "returned", "done", "released"}

C9_StatusMapping ==
    \A k \in Entries :
        Decided(k) =>
            /\ IsOk(task[k].res.status) => task[k].r.status = "available"
            /\ task[k].res.status = 409 => task[k].r.status = "taken"
            /\ task[k].res.status = 400 =>
                   task[k].r = [username |-> usernames[k], status |-> "invalid",
                                code |-> 400,
                                detail |-> Slice(task[k].res.body, 200)]

\* C10: once an attempt has ended as Available, Taken, Invalid or
\* TerminalFailure, the username makes no further remote call.
Terminal == {"Available", "Taken", "Invalid", "TerminalFailure"}

C10_Step ==
    \A k \in Entries :
        task[k].last \in Terminal =>
            /\ task'[k].calls = task[k].calls
            /\ task'[k].last = task[k].last

C10_TerminalIsLast == [][C10_Step]_vars

C10_Witness ==
    \E k \in Entries :
        /\ task[k].last = "TerminalFailure"
        /\ task[k].pc = "released"
        /\ task[k].attempt = 1
        /\ maxTries = 4

\* C11: an attempt that ends in 429, 5xx or a classified transport error
\* advances the cursor exactly once, and while attempts remain the next thing
\* its check does, after its two sleeps, is another attempt; the sleeps can
\* always end.
Retrying(k) ==
    /\ task[k].last = "RetryableFailure"
    /\ task[k].pc \in {"sleep", "finally"}

C11_Step ==
    \A k \in Entries :
        /\ task'[k].fails # task[k].fails =>
               /\ task'[k].fails = task[k].fails + 1
               /\ task'[k].nexts = task[k].nexts + 1
               /\ i' = i + 1
               /\ task'[k].pc = "sleep"
        /\ (Retrying(k) /\ task'[k] # task[k]) =>
               /\ task'[k].fails = task[k].fails
               /\ i' = i
               /\ task[k].pc = "sleep" => task'[k].pc = "finally"
               /\ (task[k].pc = "finally" /\ task[k].fails < RetryBudget) =>
                      /\ task'[k].pc = "fetch"
                      /\ task'[k].calls = task[k].calls + 1

C11_CanGoOn ==
    \A k \in Entries :
        Retrying(k) => ENABLED (OnSleep(k) \/ OnFinally(k))

C11_RetryableRetries == [](C11_CanGoOn) /\ [][C11_Step]_vars

C11_Witness ==
    \E k \in Entries :
        /\ task[k].pc = "fetch"
        /\ task[k].attempt = 2
        /\ task[k].nexts = 2
        /\ i > 2

\* C12: a response whose status is none of 2xx, 409, 429, 400, 5xx ends the
\* check as error with that status as code and the first 200 characters of
\* the response body as detail, the cursor advanced once for it and no
\* attempt after it.
Unexpected(status) ==
    /\ status # 0
    /\ ~ IsOk(status)
    /\ status \notin {409, 429, 400}
    /\ ~ Is5xx(status)

C12_UnexpectedStatus ==
    \A k \in Entries :
        (Decided(k) /\ Unexpected(task[k].res.status)) =>
            /\ task[k].r = [username |-> usernames[k], status |-> "error",
                            code |-> task[k].res.status,
                            detail |-> Slice(task[k].res.body, 200)]
            /\ task[k].nexts = task[k].fails + 1
            /\ task[k].calls = task[k].attempt + 1

\* C13: nothing escapes checkUsername as a fault.  Every check is at one of
\* its awaits or has returned a CheckResult; a terminal failure is a pending
\* or returned error result; and whatever the other usernames have ended
\* in, a started check can take its next step and a waiting one is in the
\* queue behind slots that are all held by checks that can.
CanStep(k) ==
    \/ ENABLED (\E s \in remote.statuses, b \in remote.bodies :
                    OnResponse(k, [status |-> s, ct |-> b.ct, body |-> b.body]))
    \/ runPc = "running" /\ task[k].pc = "body"   \* the guard of OnBody, whose
                                                  \* updates are total
    \/ ENABLED OnSleep(k)
    \/ ENABLED OnFinally(k)
    \/ ENABLED Deliver(k)
    \/ ENABLED Release(k)

Holding == {k \in Entries : task[k].pc \in InFlightPcs \cup {"done"}}

C13_NoEscape ==
    runPc = "running" =>
        /\ activeCount = Cardinality(Holding)
        /\ \A k \in Entries :
            /\ task[k].pc \in InFlightPcs \cup {"queued", "done", "released"}
            /\ task[k].pc \in {"returned", "done", "released"} =>
                   task[k].r.status \in {"available", "taken", "invalid", "error"}
            /\ (task[k].last = "TerminalFailure" /\ task[k].pc # "body") =>
                   task[k].r.status = "error"
            /\ k \in Holding => CanStep(k)
            /\ task[k].pc = "queued" =>
                   /\ \E n \in 1..Len(queue) : queue[n] = k
                   /\ activeCount < CONCURRENCY => ENABLED Admit

C13_Witness ==
    /\ Len(usernames) = 2
    /\ task[1].pc = "released"
    /\ task[1].r.status = "error"
    /\ task[1].last = "TerminalFailure"
    /\ "code" \notin DOMAIN task[1].r
    /\ task[2].pc = "fetch"
    /\ task[2].attempt = 1

\* C14: under fair scheduling every run comes to its end.  Every check
\* returns, having made at most max(3, 2P) remote calls, and the run reports
\* completion (or returns at once on an empty list) and stays there.
Finished == runPc \in {"complete", "empty"}

C14_Terminates ==
    /\ [](\A k \in Entries : task[k].calls <= Max(3, 2 * Len(proxies)))
    /\ \A n \in 1..MaxNames : <>(n \in Entries => task[n].pc \in {"done", "released"})
    /\ <>[]Finished

C14_Witness ==
    /\ runPc = "complete"
    /\ \E k \in Entries :
        /\ IsRetryLimit(task[k].r)
        /\ task[k].calls = Max(3, 2 * Len(proxies))
        /\ task[k].last = "RetryableFailure"
    /\ \E k \in Entries : task[k].r.status = "available"

\* C15: after an attempt through the proxy at index j has ended in 429 or in
\* a classified transport error, the next attempt of that username goes
\* through the proxy at index (j + 1) mod P, whatever the other checks do.
ProxyIndex(p) == CHOOSE j \in 0..(Len(proxies) - 1) : proxies[j + 1] = p

RotatedAway(k) ==
    /\ task[k].last = "RetryableFailure"
    /\ task[k].res.status \in {0, 429}
    /\ task'[k].attempt = task[k].attempt + 1

C15_NextProxyUsed ==
    [][\A k \in Entries :
          (Len(proxies) >= 2 /\ RotatedAway(k)) =>
              ProxyIndex(task'[k].proxy) = (ProxyIndex(task[k].proxy) + 1) % Len(proxies)]_vars

\* C16: on an empty list run() returns at once.  No check is scheduled, no
\* remote call made, the cursor stays at 0, no result is filed and the sinks
\* are neither reset nor opened.
C16_EmptyList ==
    Len(usernames) = 0 =>
        /\ runPc \in {"start", "empty"}
        /\ sinks = "untouched"
        /\ i = 0
        /\ queue = <<>>
        /\ activeCount = 0
        /\ task = <<>>
        /\ state = [total |-> 0, available |-> 0, taken |-> 0]
        /\ BucketsTotal = 0
        /\ runPc = "empty" => ~ ENABLED Next

C16_Witness ==
    /\ Len(usernames) = 0
    /\ runPc = "empty"
    /\ Len(proxies) = MaxProxies

\* C17: with at least one proxy, a username that ends in "retry limit
\* reached" has made an attempt through each of the proxies, whatever the
\* other checks did to the cursor in between.
ProxySet == {proxies[j] : j \in 1..Len(proxies)}

C17_EveryProxyTried ==
    \A k \in Entries :
        (/\ Len(proxies) >= 1
         /\ task[k].pc \in {"returned", "done", "released"}
         /\ IsRetryLimit(task[k].r)) => task[k].used = ProxySet

\* C18: an attempt goes through the proxy the cursor designates at the step
\* that starts it, so that the advances other checks have made since the
\* username's previous attempt count.
C18_Step ==
    \A k \in Entries :
        task'[k].calls = task[k].calls + 1 =>
            /\ task'[k].pc = "fetch"
            /\ i' = i
            /\ task'[k].proxy = ProxyAfter(i)

C18_CurrentProxy == [][C18_Step]_vars

C18_Witness ==
    /\ Len(usernames) = 2
    /\ Len(proxies) = 2
    /\ task[1].pc = "fetch"
    /\ task[1].attempt = 1
    /\ task[1].nexts = 1
    /\ task[2].nexts = 1
    /\ i = 2
    /\ task[1].proxy = proxies[1]

\* C19: the cursor moves only on a step of a check that ends an attempt in
\* 429, in 5xx or another unexpected status (after the body is read), or in a
\* classified transport error, and then by one.  A step that gives a check
\* its available, taken or invalid result (too short or 400), or the error
\* result of an unclassified transport error, leaves the cursor alone.
Advancing(k) ==
    /\ task'[k].nexts = task[k].nexts + 1
    /\ \/ task[k].pc = "fetch" /\ task'[k].res.status = 429
       \/ /\ task[k].pc = "fetch"
          /\ task'[k].res = NoResponse
          /\ task'[k].last = "RetryableFailure"
       \/ /\ task[k].pc = "body"
          /\ Is5xx(task[k].res.status) \/ Unexpected(task[k].res.status)

Quiet(k) ==
    /\ task'[k].r # task[k].r
    /\ \/ task'[k].r.status \in {"available", "taken", "invalid"}
       \/ /\ task[k].pc = "fetch"
          /\ task'[k].r.status = "error"
          /\ task'[k].res = NoResponse

C19_Step ==
    /\ i' # i => (i' = i + 1 /\ \E k \in Entries : Advancing(k))
    /\ (\E k \in Entries : Quiet(k)) => i' = i

C19_CursorFrame == [][C19_Step]_vars

C19_Witness ==
    /\ Len(usernames) = 2
    /\ Len(usernames[2]) < MIN_LEN
    /\ task[2].pc = "done"
    /\ task[1].pc = "finally"
    /\ task[1].last = "TerminalFailure"
    /\ task[1].res = NoResponse
    /\ task[1].attempt = 1
    /\ i = 1

\* C20: the scheduler conserves work.  While usernames wait and fewer than
\* CONCURRENCY checks are in flight, the head of the queue can be admitted or
\* a settled callback is about to hand its slot over; a freed slot goes to
\* the head of the queue in the same step; usernames start in list order;
\* and under fair scheduling every username of the list is started.
C20_Conserving ==
    (runPc = "running" /\ queue # <<>> /\ Cardinality(InFlight) < CONCURRENCY) =>
        \/ ENABLED Admit
        \/ \E k \in Entries : task[k].pc = "done" /\ ENABLED Release(k)

C20_Step ==
    \A k \in Entries :
        /\ (task[k].pc = "done" /\ task'[k].pc = "released" /\ queue # <<>>) =>
               /\ queue' = Tail(queue)
               /\ task'[Head(queue)].pc # "queued"
        /\ (task[k].pc = "queued" /\ task'[k].pc # "queued") =>
               /\ Head(queue) = k
               /\ \A j \in 1..(k - 1) : task[j].pc # "queued"

C20_WorkConserving ==
    /\ []C20_Conserving
    /\ [][C20_Step]_vars
    /\ <>(\A n \in 1..MaxWide : task[n].pc # "queued")

C20_Witness ==
    /\ task[MaxWide].pc = "fetch"
    /\ task[MaxWide].attempt = 1
    /\ Cardinality(InFlight) = CONCURRENCY
    /\ Cardinality({k \in Entries : task[k].pc = "released"}) = Len(usernames) - CONCURRENCY

====
